---- MODULE Spec2Model ----
(***************************************************************************)
(* The two maintenance scripts of the repository, add_i18n_keys.py and     *)
(* translate_dialoguer_keys.py.  Each one loads src/i18n/messages.json,    *)
(* merges a literal batch into it, sorts every locale's table by key and   *)
(* writes the file back, then prints per-locale totals.                    *)
(*                                                                         *)
(* A Python dict is modelled as the sequence of its <<key, value>> items   *)
(* in insertion order (keys unique).  A message key is the sequence of its *)
(* code points, so that sorted() can be modelled by the comparison Python  *)
(* makes.  The top-level mapping locale -> table is a function: no         *)
(* statement of either script changes the order of the locales.            *)
(*                                                                         *)
(* The file holds the tokens of a JSON text.  json.dump and json.load are  *)
(* modelled down to the escaping of the characters of a string; the        *)
(* whitespace that indent=2 adds is a function of the tokens and is left   *)
(* out.                                                                    *)
(***************************************************************************)
EXTENDS Integers, Sequences, FiniteSets, TLC

VARIABLES
    file,          \* src/i18n/messages.json: [kind, content]
    messages,      \* the script's variable `messages` (empty before json.load)
    pc,            \* position of the script
    err,           \* the exception that ended the script, or "none"
    script,        \* which of the two scripts is running
    new_keys,      \* add_i18n_keys.py: the literal new_keys
    translations,  \* translate_dialoguer_keys.py: the literal translations
    peer,          \* a second process running the other script: [pc, messages, err]
    file0,         \* history: the file when the run started
    log            \* history: the accesses to the file, <<process, access>>

vars == <<file, messages, pc, err, script, new_keys, translations, peer, file0, log>>

----------------------------------------------------------------------------
(* Bounds of the model *)

MaxEntries == 2        \* items of the file's store, all locales together
MaxNewKeys == 2        \* items of new_keys
MaxTranslations == 1   \* items of translations
MaxRuns == 2           \* runs of a script, one after the other
MaxRaceEntries == 1    \* items of the file's store when two scripts race
MaxSeqEntries == 1     \* items of the file's store when one script follows the other

(* Code points "B" = 66, "a" = 97, "b" = 98: the keys "B", "a", "ab".       *)
KeyB == <<66>>
KeyA == <<97>>
KeyAB == <<97, 98>>
Keys == {KeyB, KeyA, KeyAB}

(* Texts: a quotation mark and HIRAGANA RI (12426) for the text found in   *)
(* the file, KATAKANA BA (12496) and a backslash for the text of a batch.  *)
TextOld == <<34, 12426>>
TextNew == <<12496, 92>>

StoreTexts == {TextOld}        \* texts found in the file
BatchTexts == {TextNew}        \* texts of the literal batches

Locales == {"en", "ja", "zh", "zh-TW"}

----------------------------------------------------------------------------
(* Python dict and sorted() *)

\* A value of the file that is not a string keeps its JSON kind: the item of
\* a number is <<key, digits, "number">>.  A locale whose value is not an
\* object (a number) is the one-item sequence <<<<digits>>>>, which no dict is.
NumberItem(k, digits) == <<k, digits, "number">>
NumberValue(digits) == <<<<digits>>>>

IsMapping(d) == \A i \in 1..Len(d) : Len(d[i]) >= 2

DictKeys(d) == {d[i][1] : i \in 1..Len(d)}

DictHas(d, k) == k \in DictKeys(d)

DictGet(d, k) == LET i == CHOOSE j \in 1..Len(d) : d[j][1] = k IN d[i][2]

\* the set of (key, value) pairs of a dict: what == compares in Python
DictItems(d) == {d[i] : i \in 1..Len(d)}

\* variants of DictSet: one that never looks for the key, one that keeps the
\* text of an existing key
DictSetAppend(d, k, v) == Append(d, <<k, v>>)

DictSetKeep(d, k, v) == IF DictHas(d, k) THEN d ELSE Append(d, <<k, v>>)

\* d[k] = v on a dict: an existing key keeps its position, a new one is last
DictSet(d, k, v) ==
    IF DictHas(d, k)
    THEN [i \in 1..Len(d) |-> IF d[i][1] = k THEN <<k, v>> ELSE d[i]]
    ELSE Append(d, <<k, v>>)

\* variant of DictUpdate: the items are appended without a lookup
DictUpdateConcat(d, a) == d \o a

\* d.update(a)
RECURSIVE DictUpdate(_, _)
DictUpdate(d, a) ==
    IF a = <<>> THEN d
    ELSE DictUpdate(DictSet(d, Head(a)[1], Head(a)[2]), Tail(a))

\* variant of StrLess: the code points are compared the other way round
RECURSIVE StrLessReversed(_, _)
StrLessReversed(a, b) ==
    IF b = <<>> THEN FALSE
    ELSE IF a = <<>> THEN TRUE
    ELSE IF Head(a) # Head(b) THEN Head(a) > Head(b)
    ELSE StrLessReversed(Tail(a), Tail(b))

\* str < str in Python: code point by code point, a proper prefix is smaller
RECURSIVE StrLess(_, _)
StrLess(a, b) ==
    IF b = <<>> THEN FALSE
    ELSE IF a = <<>> THEN TRUE
    ELSE IF Head(a) # Head(b) THEN Head(a) < Head(b)
    ELSE StrLess(Tail(a), Tail(b))

\* variant of InsertItem: the item goes before or right after the first item
InsertItemShallow(s, it) ==
    IF s = <<>> THEN <<it>>
    ELSE IF StrLess(it[1], Head(s)[1]) THEN <<it>> \o s
    ELSE <<Head(s), it>> \o Tail(s)

\* insertion of one item into a sorted list of items (keys are unique in a
\* dict, so the comparison of two items is decided by their keys)
RECURSIVE InsertItem(_, _)
InsertItem(s, it) ==
    IF s = <<>> THEN <<it>>
    ELSE IF StrLess(it[1], Head(s)[1]) THEN <<it>> \o s
    ELSE <<Head(s)>> \o InsertItem(Tail(s), it)

\* variant of SortedDict: the items keep their insertion order
SortedDictNoop(d) == d

\* dict(sorted(d.items()))
RECURSIVE SortedDict(_)
SortedDict(d) ==
    IF d = <<>> THEN <<>>
    ELSE InsertItem(SortedDict(Tail(d)), Head(d))

----------------------------------------------------------------------------
(* The merges and the sort of the two scripts *)

Result(store, e) == [store |-> store, err |-> e]

\* variants of MergeSingleLocale: one that replaces the table by the
\* additions, one that updates every locale of the store
MergeSingleLocaleReplace(store, locale, additions) ==
    IF locale \notin DOMAIN store
    THEN Result(store, "KeyError")
    ELSE Result([store EXCEPT ![locale] = additions], "none")

MergeSingleLocaleAll(store, locale, additions) ==
    IF locale \notin DOMAIN store
    THEN Result(store, "KeyError")
    ELSE Result([lang \in DOMAIN store |-> DictUpdate(store[lang], additions)], "none")

\* add_i18n_keys.py: messages['en'].update(new_keys), for any target locale.
\* messages[locale] raises KeyError when the locale is not in the store, and
\* a value that is not a dict has no attribute update.
MergeSingleLocale(store, locale, additions) ==
    IF locale \notin DOMAIN store
    THEN Result(store, "KeyError")
    ELSE IF ~IsMapping(store[locale])
    THEN Result(store, "AttributeError")
    ELSE Result([store EXCEPT ![locale] = DictUpdate(@, additions)], "none")

\* translate_dialoguer_keys.py: for lang in ['ja', 'zh', 'zh-TW']
TransLangs == <<"ja", "zh", "zh-TW">>

\* the inner loop for one key: messages[lang][key] = trans[lang].  Both
\* trans[lang] and messages[lang] raise KeyError on a missing lang, and the
\* assignment raises TypeError on a value that is not a dict; what the
\* earlier iterations stored stays in the store.
RECURSIVE MergeLangs(_, _, _, _)
MergeLangs(store, key, trans, langs) ==
    IF langs = <<>> THEN Result(store, "none")
    ELSE LET lang == Head(langs) IN
         IF lang \notin DOMAIN trans \/ lang \notin DOMAIN store
         THEN Result(store, "KeyError")
         ELSE IF ~IsMapping(store[lang])
         THEN Result(store, "TypeError")
         ELSE MergeLangs([store EXCEPT ![lang] = DictSet(@, key, trans[lang])],
                         key, trans, Tail(langs))

\* the outer loop: for key, trans in translations.items()
RECURSIVE MergeMultiLocale(_, _)
MergeMultiLocale(store, batch) ==
    IF batch = <<>> THEN Result(store, "none")
    ELSE LET r == MergeLangs(store, Head(batch)[1], Head(batch)[2], TransLangs) IN
         IF r.err # "none" THEN r
         ELSE MergeMultiLocale(r.store, Tail(batch))

\* variant of Normalize: only the locale the add script merged into is sorted
NormalizeEnOnly(store) ==
    [lang \in DOMAIN store |-> IF lang = "en" THEN SortedDict(store[lang]) ELSE store[lang]]

\* for lang in messages: messages[lang] = dict(sorted(messages[lang].items()))
Normalize(store) == [lang \in DOMAIN store |-> SortedDict(store[lang])]

\* the order in which the file names its locales, which is the order of the
\* keys of messages
LocaleOrder == <<"en", "ja", "zh", "zh-TW">>

LocalesOf(store) == SelectSeq(LocaleOrder, LAMBDA lang : lang \in DOMAIN store)

\* the sort loop up to the first locale whose value has no attribute items
RECURSIVE SortLoop(_, _)
SortLoop(store, langs) ==
    IF langs = <<>> THEN Result(store, "none")
    ELSE IF ~IsMapping(store[Head(langs)]) THEN Result(store, "AttributeError")
    ELSE SortLoop([store EXCEPT ![Head(langs)] = SortedDict(@)], Tail(langs))

\* the sort loop as a whole
SortAll(store) ==
    IF \A lang \in DOMAIN store : IsMapping(store[lang])
    THEN Result(Normalize(store), "none")
    ELSE SortLoop(store, LocalesOf(store))

\* the report loop: for lang in ['en', 'ja', 'zh', 'zh-TW']
ReportLangs == <<"en", "ja", "zh", "zh-TW">>

----------------------------------------------------------------------------
(* json.dump(messages, f, ensure_ascii=False, indent=2) and json.load(f)    *)

NoStore == [lang \in {} |-> <<>>]

\* the characters of a locale code
LocaleChars(lang) ==
    CASE lang = "en" -> <<101, 110>>
      [] lang = "ja" -> <<106, 97>>
      [] lang = "zh" -> <<122, 104>>
      [] lang = "zh-TW" -> <<122, 104, 45, 84, 87>>

\* a token of the text: its kind and, for a string or a number, its characters
Tok(kind, chars) == <<kind, chars>>

Punct(c) == Tok(c, <<>>)

\* variant of Escape: the characters are written as they are
EscapeNone(s) == s

\* the characters of a string between its quotation marks: a quotation mark
\* (34) and a backslash (92) are escaped, and with ensure_ascii=False every
\* other character of the model's texts is written as it is
RECURSIVE Escape(_)
Escape(s) ==
    IF s = <<>> THEN <<>>
    ELSE (IF Head(s) \in {34, 92} THEN <<92, Head(s)>> ELSE <<Head(s)>>)
         \o Escape(Tail(s))

\* variant of Unescape: the characters are read as they are
UnescapeNone(e) == [ok |-> TRUE, s |-> e]

\* the string that escaped characters denote, if they denote one
RECURSIVE Unescape(_)
Unescape(e) ==
    IF e = <<>> THEN [ok |-> TRUE, s |-> <<>>]
    ELSE IF Head(e) = 34 THEN [ok |-> FALSE, s |-> <<>>]
    ELSE IF Head(e) = 92
         THEN IF Len(e) >= 2 /\ e[2] \in {34, 92}
              THEN LET r == Unescape(Tail(Tail(e))) IN
                   [ok |-> r.ok, s |-> <<e[2]>> \o r.s]
              ELSE [ok |-> FALSE, s |-> <<>>]
    ELSE LET r == Unescape(Tail(e)) IN [ok |-> r.ok, s |-> <<Head(e)>> \o r.s]

DumpValue(it) ==
    IF Len(it) = 2 THEN Tok("str", Escape(it[2])) ELSE Tok("num", it[2])

RECURSIVE DumpItems(_)
DumpItems(d) ==
    IF d = <<>> THEN <<>>
    ELSE <<Tok("str", Escape(d[1][1])), Punct(":"), DumpValue(d[1])>>
         \o (IF Len(d) > 1 THEN <<Punct(",")>> ELSE <<>>)
         \o DumpItems(Tail(d))

DumpTable(d) ==
    IF IsMapping(d) THEN <<Punct("{")>> \o DumpItems(d) \o <<Punct("}")>>
    ELSE <<Tok("num", d[1][1])>>

RECURSIVE DumpLocales(_, _)
DumpLocales(store, langs) ==
    IF langs = <<>> THEN <<>>
    ELSE <<Tok("str", Escape(LocaleChars(Head(langs)))), Punct(":")>>
         \o DumpTable(store[Head(langs)])
         \o (IF Len(langs) > 1 THEN <<Punct(",")>> ELSE <<>>)
         \o DumpLocales(store, Tail(langs))

\* the tokens json.dump writes for a store
JsonDump(store) ==
    <<Punct("{")>> \o DumpLocales(store, LocalesOf(store)) \o <<Punct("}")>>

Fail == [ok |-> FALSE, pos |-> 0, val |-> <<>>]

Is(t, i, kind) == i <= Len(t) /\ t[i][1] = kind

\* the items of an object from token i on, added to acc: a key that comes
\* twice keeps its first place and its last value
RECURSIVE ParseItems(_, _, _)
ParseItems(t, i, acc) ==
    IF Is(t, i, "str") /\ Is(t, i + 1, ":") /\ (Is(t, i + 2, "str") \/ Is(t, i + 2, "num"))
    THEN LET k == Unescape(t[i][2])
             v == IF Is(t, i + 2, "str") THEN Unescape(t[i + 2][2])
                  ELSE [ok |-> TRUE, s |-> t[i + 2][2]]
             it == IF Is(t, i + 2, "str") THEN <<k.s, v.s>> ELSE NumberItem(k.s, v.s)
             d == IF DictHas(acc, k.s)
                  THEN [j \in 1..Len(acc) |-> IF acc[j][1] = k.s THEN it ELSE acc[j]]
                  ELSE Append(acc, it)
         IN  IF ~k.ok \/ ~v.ok THEN Fail
             ELSE IF Is(t, i + 3, ",") THEN ParseItems(t, i + 4, d)
             ELSE IF Is(t, i + 3, "}") THEN [ok |-> TRUE, pos |-> i + 4, val |-> d]
             ELSE Fail
    ELSE Fail

\* the value of a locale at token i: an object of items, or a number
ParseTable(t, i) ==
    IF Is(t, i, "num") THEN [ok |-> TRUE, pos |-> i + 1, val |-> NumberValue(t[i][2])]
    ELSE IF ~Is(t, i, "{") THEN Fail
    ELSE IF Is(t, i + 1, "}") THEN [ok |-> TRUE, pos |-> i + 2, val |-> <<>>]
    ELSE ParseItems(t, i + 1, <<>>)

\* the locale a top-level key names; the files of the model name no locale
\* outside Locales
KnownLocale(chars) == \E lang \in Locales : LocaleChars(lang) = chars

LocaleOf(chars) == CHOOSE lang \in Locales : LocaleChars(lang) = chars

RECURSIVE ParseLocales(_, _, _)
ParseLocales(t, i, acc) ==
    IF Is(t, i, "str") /\ Is(t, i + 1, ":")
    THEN LET k == Unescape(t[i][2])
             d == ParseTable(t, i + 2)
         IN  IF ~k.ok \/ ~d.ok \/ ~KnownLocale(k.s) THEN Fail
             ELSE LET lang == LocaleOf(k.s)
                      acc2 == [l \in DOMAIN acc \cup {lang} |->
                                  IF l = lang THEN d.val ELSE acc[l]]
                  IN  IF Is(t, d.pos, ",") THEN ParseLocales(t, d.pos + 1, acc2)
                      ELSE IF Is(t, d.pos, "}")
                           THEN [ok |-> TRUE, pos |-> d.pos + 1, val |-> acc2]
                      ELSE Fail
    ELSE Fail

\* what json.load makes of the tokens: the store, or ok = FALSE where it
\* raises JSONDecodeError (no text, a text cut short, tokens after the end)
JsonLoad(t) ==
    LET r == IF ~Is(t, 1, "{") THEN Fail
             ELSE IF Is(t, 2, "}") THEN [ok |-> TRUE, pos |-> 3, val |-> NoStore]
             ELSE ParseLocales(t, 2, NoStore)
    IN  IF r.ok /\ r.pos = Len(t) + 1
        THEN [ok |-> TRUE, store |-> r.val]
        ELSE [ok |-> FALSE, store |-> NoStore]

----------------------------------------------------------------------------
(* The inputs: the file found on disk and the literal batches *)

\* dicts of at most n items over the given texts, in every insertion order
RECURSIVE DictsUpTo(_, _)
DictsUpTo(n, texts) ==
    IF n = 0 THEN {<<>>}
    ELSE LET P == DictsUpTo(n - 1, texts) IN
         P \cup UNION {{Append(d, <<k, v>>) : k \in Keys \ DictKeys(d), v \in texts}
                       : d \in P}

\* stores over any set of locales holding at most n items in all
RECURSIVE StoresUpTo(_)
StoresUpTo(n) ==
    IF n = 0 THEN {[lang \in D |-> <<>>] : D \in SUBSET Locales}
    ELSE LET P == StoresUpTo(n - 1) IN
         P \cup UNION {UNION {{[s EXCEPT ![lang] = Append(@, <<k, v>>)]
                               : k \in Keys \ DictKeys(s[lang]), v \in StoreTexts}
                              : lang \in DOMAIN s}
                       : s \in P}

\* the sub-mappings of translations: a text for some of the three locales
TransMaps == UNION {[D -> BatchTexts] : D \in SUBSET {"ja", "zh", "zh-TW"}}

\* translations of at most n keys
RECURSIVE TranslationsUpTo(_)
TranslationsUpTo(n) ==
    IF n = 0 THEN {<<>>}
    ELSE LET P == TranslationsUpTo(n - 1) IN
         P \cup UNION {{Append(b, <<k, t>>) : k \in Keys \ DictKeys(b), t \in TransMaps}
                       : b \in P}

TextFile(t) == [kind |-> "text", content |-> t]
StoreFile(s) == TextFile(JsonDump(s))
MissingFile == [kind |-> "missing", content |-> <<>>]
MalformedFile == TextFile(<<Punct("{")>>)
EmptyFile == TextFile(<<>>)

Idle == [pc |-> "off", messages |-> NoStore, err |-> "none"]

Init ==
    /\ file \in {StoreFile(s) : s \in StoresUpTo(MaxEntries)}
                \cup {MissingFile, MalformedFile}
    /\ messages = NoStore
    /\ pc = "start"
    /\ err = "none"
    /\ script \in {"add", "translate"}
    /\ new_keys \in IF script = "add" THEN DictsUpTo(MaxNewKeys, BatchTexts) ELSE {<<>>}
    /\ translations \in IF script = "translate" THEN TranslationsUpTo(MaxTranslations)
                        ELSE {<<>>}
    /\ peer = Idle
    /\ file0 = file
    /\ log = <<>>

----------------------------------------------------------------------------
(* The steps of a run *)

\* variant of LoadFrom: a missing file is read as an empty store
LoadFromOrEmpty(f) ==
    IF f.kind = "missing"
    THEN [pc |-> "loaded", messages |-> NoStore, err |-> "none"]
    ELSE LET r == JsonLoad(f.content) IN
         IF r.ok THEN [pc |-> "loaded", messages |-> r.store, err |-> "none"]
         ELSE [pc |-> "failed_load", messages |-> NoStore, err |-> "JSONDecodeError"]

\* with open(..., 'r') as f: messages = json.load(f), on the file f
LoadFrom(f) ==
    IF f.kind = "missing"
    THEN [pc |-> "failed_load", messages |-> NoStore, err |-> "FileNotFoundError"]
    ELSE LET r == JsonLoad(f.content) IN
         IF r.ok THEN [pc |-> "loaded", messages |-> r.store, err |-> "none"]
         ELSE [pc |-> "failed_load", messages |-> NoStore, err |-> "JSONDecodeError"]

\* variant of Truncated: the file is opened without being truncated
TruncatedKeep(f) == IF f.kind = "missing" THEN EmptyFile ELSE f

\* open(..., 'w') truncates the file and creates it when it is missing
Truncated(f) == EmptyFile

\* variant of Written: the text replaces whatever the file holds
WrittenWhole(f, store) == TextFile(JsonDump(store))

\* json.dump and the close: the text goes to the start of the file, over what
\* another process wrote there since this one truncated it
Written(f, store) ==
    LET t == JsonDump(store) IN
    TextFile(t \o SubSeq(f.content, Len(t) + 1, Len(f.content)))

\* the prints: len(messages[lang]) for each of the four hard-coded locales
Reported(store) ==
    IF \A i \in 1..Len(ReportLangs) : ReportLangs[i] \in DOMAIN store
    THEN [pc |-> "done", err |-> "none"]
    ELSE [pc |-> "failed_report", err |-> "KeyError"]

Load ==
    /\ pc = "start"
    /\ LET r == LoadFrom(file) IN
       /\ messages' = r.messages
       /\ pc' = r.pc
       /\ err' = r.err
    /\ log' = Append(log, <<1, "load">>)
    /\ UNCHANGED <<file, script, new_keys, translations, peer, file0>>

\* add_i18n_keys.py: messages['en'].update(new_keys)
AddMerge ==
    /\ pc = "loaded"
    /\ script = "add"
    /\ LET r == MergeSingleLocale(messages, "en", new_keys) IN
       /\ messages' = r.store
       /\ err' = r.err
       /\ pc' = IF r.err = "none" THEN "merged" ELSE "failed_merge"
    /\ UNCHANGED <<file, script, new_keys, translations, peer, file0, log>>

\* translate_dialoguer_keys.py: the two nested loops
TranslateMerge ==
    /\ pc = "loaded"
    /\ script = "translate"
    /\ LET r == MergeMultiLocale(messages, translations) IN
       /\ messages' = r.store
       /\ err' = r.err
       /\ pc' = IF r.err = "none" THEN "merged" ELSE "failed_merge"
    /\ UNCHANGED <<file, script, new_keys, translations, peer, file0, log>>

\* the sort loop over every locale of messages
Sort ==
    /\ pc = "merged"
    /\ LET r == SortAll(messages) IN
       /\ messages' = r.store
       /\ err' = r.err
       /\ pc' = IF r.err = "none" THEN "sorted" ELSE "failed_sort"
    /\ UNCHANGED <<file, script, new_keys, translations, peer, file0, log>>

\* open(..., 'w')
SaveOpen ==
    /\ pc = "sorted"
    /\ file' = Truncated(file)
    /\ pc' = "writing"
    /\ log' = Append(log, <<1, "open">>)
    /\ UNCHANGED <<messages, err, script, new_keys, translations, peer, file0>>

\* json.dump(messages, f, ensure_ascii=False, indent=2) and the close
SaveDump ==
    /\ pc = "writing"
    /\ file' = Written(file, messages)
    /\ pc' = "saved"
    /\ log' = Append(log, <<1, "dump">>)
    /\ UNCHANGED <<messages, err, script, new_keys, translations, peer, file0>>

\* the process is interrupted, or a write fails, between the truncation and
\* the end of the serialization: nothing or a part of the text is in the file
Interrupt ==
    /\ pc = "writing"
    /\ \E n \in {0, Len(JsonDump(messages)) \div 2} :
           file' = TextFile(SubSeq(JsonDump(messages), 1, n))
    /\ pc' = "failed_save"
    /\ err' = "Interrupted"
    /\ UNCHANGED <<messages, script, new_keys, translations, peer, file0, log>>

Report ==
    /\ pc = "saved"
    /\ LET r == Reported(messages) IN
       /\ pc' = r.pc
       /\ err' = r.err
    /\ UNCHANGED <<file, messages, script, new_keys, translations, peer, file0, log>>

Next ==
    \/ Load
    \/ AddMerge
    \/ TranslateMerge
    \/ Sort
    \/ SaveOpen
    \/ SaveDump
    \/ Interrupt
    \/ Report

Spec == Init /\ [][Next]_vars

----------------------------------------------------------------------------
(* The same script run again on the file its last run left *)

\* the runs started so far
Runs == 1 + Len(SelectSeq(log, LAMBDA a : a[2] = "run"))

\* the script is started again after a run that saved the file: it has the
\* same literal batch and finds the file as that run left it
Rerun ==
    /\ pc \in {"done", "failed_report"}
    /\ Runs < MaxRuns
    /\ pc' = "start"
    /\ messages' = NoStore
    /\ err' = "none"
    /\ file0' = file
    /\ log' = Append(log, <<1, "run">>)
    /\ UNCHANGED <<file, script, new_keys, translations, peer>>

NextRerun ==
    \/ Next
    \/ Rerun

SpecRerun == Init /\ [][NextRerun]_vars

----------------------------------------------------------------------------
(* Two scripts run at once on the same file, without a lock.  Process 1    *)
(* runs script, process 2 (peer) runs the other script; each has its own    *)
(* messages, and the file is all they share.                                *)

PeerScript == IF script = "add" THEN "translate" ELSE "add"

\* the merge of a script on the store its process loaded
MergeOf(sc, store) ==
    IF sc = "add" THEN MergeSingleLocale(store, "en", new_keys)
    ELSE MergeMultiLocale(store, translations)

\* translations that give every key a text for each of ja, zh and zh-TW, as
\* the literal of translate_dialoguer_keys.py does
FullTranslationsUpTo(n) ==
    {b \in TranslationsUpTo(n) :
        \A i \in 1..Len(b) : DOMAIN b[i][2] = {"ja", "zh", "zh-TW"}}

\* batches of one entry: a key for en, a key with its three translations
OneNewKey == {<<<<k, v>>>> : k \in Keys, v \in BatchTexts}
OneTranslation == {<<<<k, t>>>> : k \in Keys, t \in [{"ja", "zh", "zh-TW"} -> BatchTexts]}

InitRace ==
    /\ file \in {StoreFile(s) : s \in {t \in StoresUpTo(MaxRaceEntries) : DOMAIN t = Locales}}
    /\ messages = NoStore
    /\ pc = "start"
    /\ err = "none"
    /\ script \in {"add", "translate"}
    /\ new_keys \in OneNewKey
    /\ translations \in OneTranslation
    /\ peer = [Idle EXCEPT !.pc = "start"]
    /\ file0 = file
    /\ log = <<>>

Load2 ==
    /\ peer.pc = "start"
    /\ peer' = LoadFrom(file)
    /\ log' = Append(log, <<2, "load">>)
    /\ UNCHANGED <<file, messages, pc, err, script, new_keys, translations, file0>>

Merge2 ==
    /\ peer.pc = "loaded"
    /\ LET r == MergeOf(PeerScript, peer.messages) IN
       peer' = [pc |-> IF r.err = "none" THEN "merged" ELSE "failed_merge",
                messages |-> r.store,
                err |-> r.err]
    /\ UNCHANGED <<file, messages, pc, err, script, new_keys, translations, file0, log>>

Sort2 ==
    /\ peer.pc = "merged"
    /\ LET r == SortAll(peer.messages) IN
       peer' = [pc |-> IF r.err = "none" THEN "sorted" ELSE "failed_sort",
                messages |-> r.store,
                err |-> r.err]
    /\ UNCHANGED <<file, messages, pc, err, script, new_keys, translations, file0, log>>

SaveOpen2 ==
    /\ peer.pc = "sorted"
    /\ file' = Truncated(file)
    /\ peer' = [peer EXCEPT !.pc = "writing"]
    /\ log' = Append(log, <<2, "open">>)
    /\ UNCHANGED <<messages, pc, err, script, new_keys, translations, file0>>

SaveDump2 ==
    /\ peer.pc = "writing"
    /\ file' = Written(file, peer.messages)
    /\ peer' = [peer EXCEPT !.pc = "saved"]
    /\ log' = Append(log, <<2, "dump">>)
    /\ UNCHANGED <<messages, pc, err, script, new_keys, translations, file0>>

Report2 ==
    /\ peer.pc = "saved"
    /\ LET r == Reported(peer.messages) IN
       peer' = [peer EXCEPT !.pc = r.pc, !.err = r.err]
    /\ UNCHANGED <<file, messages, pc, err, script, new_keys, translations, file0, log>>

NextRace ==
    \/ Load
    \/ AddMerge
    \/ TranslateMerge
    \/ Sort
    \/ SaveOpen
    \/ SaveDump
    \/ Report
    \/ Load2
    \/ Merge2
    \/ Sort2
    \/ SaveOpen2
    \/ SaveDump2
    \/ Report2

SpecRace == InitRace /\ [][NextRace]_vars

----------------------------------------------------------------------------
(* The two scripts run one after the other on the same file, in either     *)
(* order: script is the one that runs now, and after it ended the other    *)
(* one is started on the file it left.                                     *)

\* the literal new_keys of one entry, with a text that differs or not from
\* the texts of translations
OneNewKeyAnyText == {<<<<k, v>>>> : k \in Keys, v \in StoreTexts \cup BatchTexts}

InitSeq ==
    /\ file \in {StoreFile(s) : s \in {t \in StoresUpTo(MaxSeqEntries) : DOMAIN t = Locales}}
    /\ messages = NoStore
    /\ pc = "start"
    /\ err = "none"
    /\ script \in {"add", "translate"}
    /\ new_keys \in OneNewKeyAnyText
    /\ translations \in OneTranslation
    /\ peer = Idle
    /\ file0 = file
    /\ log = <<>>

\* the first script has ended
Switched == \E i \in 1..Len(log) : log[i] = <<1, "switch">>

\* the other script is started once the first has ended; file0 stays the
\* file the first script found
Switch ==
    /\ pc = "done"
    /\ ~Switched
    /\ script' = PeerScript
    /\ pc' = "start"
    /\ messages' = NoStore
    /\ err' = "none"
    /\ log' = Append(log, <<1, "switch">>)
    /\ UNCHANGED <<file, new_keys, translations, peer, file0>>

NextSeq ==
    \/ Next
    \/ Switch

SpecSeq == InitSeq /\ [][NextSeq]_vars

----------------------------------------------------------------------------
(* A file that is valid JSON but not a mapping of locales to mappings of    *)
(* strings to strings: json.load accepts any JSON value.                    *)

\* the digits of the number 1
One == <<49>>

\* what a locale of such a file can hold: a table of strings, a table with
\* a number for a key, or a number in place of the table
AnyTables ==
    {<<>>, <<<<KeyA, TextOld>>>>, <<NumberItem(KeyA, One)>>,
     <<<<KeyB, TextOld>>, NumberItem(KeyA, One)>>, NumberValue(One)}

AnyStores == [Locales -> AnyTables]

InitAnyJson ==
    /\ file \in {StoreFile(s) : s \in AnyStores}
    /\ messages = NoStore
    /\ pc = "start"
    /\ err = "none"
    /\ script \in {"add", "translate"}
    /\ new_keys \in IF script = "add" THEN DictsUpTo(MaxNewKeys, BatchTexts) ELSE {<<>>}
    /\ translations \in IF script = "translate"
                        THEN FullTranslationsUpTo(MaxTranslations)
                        ELSE {<<>>}
    /\ peer = Idle
    /\ file0 = file
    /\ log = <<>>

SpecAnyJson == InitAnyJson /\ [][Next]_vars

----------------------------------------------------------------------------
(* Properties.  Between json.load and open(..., 'w') the file still holds   *)
(* the text the run loaded, so Loaded is the store before the merge.        *)

Loaded == JsonLoad(file.content).store

\* the dict d maps key k to text v, and to nothing else
Maps(d, k, v) ==
    /\ \E i \in 1..Len(d) : d[i] = <<k, v>>
    /\ \A i \in 1..Len(d) : d[i][1] = k => d[i][2] = v

AfterAddMerge == script = "add" /\ pc = "merged"

\* C1: MergeSingleLocale is idempotent: merging the same additions into the
\* same locale of a store a second time gives the store the first merge
\* gave, for the store the run merged into and for every locale of a store.
C1_MergeSingleIdempotent ==
    /\ AfterAddMerge =>
           MergeSingleLocale(messages, "en", new_keys) = Result(messages, "none")
    /\ (script = "add" /\ pc = "loaded") =>
           \A L \in DOMAIN messages :
               LET once == MergeSingleLocale(messages, L, new_keys) IN
               MergeSingleLocale(once.store, L, new_keys) = once

\* a merge of two keys, one already in the table and one new
C1_Witness ==
    /\ AfterAddMerge
    /\ Len(new_keys) = 2
    /\ \E i, j \in 1..2 : /\ DictHas(Loaded["en"], new_keys[i][1])
                          /\ ~DictHas(Loaded["en"], new_keys[j][1])

\* C2: overwrite semantics: a key that was in the locale's table and is in
\* the additions has the additions' text after the merge, and the merge
\* raises nothing.
C2_Overwrite ==
    AfterAddMerge =>
        /\ err = "none"
        /\ \A i \in 1..Len(new_keys) :
               DictHas(Loaded["en"], new_keys[i][1]) =>
                   Maps(messages["en"], new_keys[i][1], new_keys[i][2])

\* a key with the old text in the file is given the new text
C2_Witness ==
    /\ AfterAddMerge
    /\ \E i \in 1..Len(new_keys) :
           /\ Maps(Loaded["en"], new_keys[i][1], TextOld)
           /\ new_keys[i][2] = TextNew

\* C3: key-count accounting: when none of the n keys of the additions was
\* in the locale's table, the table has n more keys after the merge.
C3_KeyCount ==
    (AfterAddMerge /\ DictKeys(new_keys) \cap DictKeys(Loaded["en"]) = {}) =>
        /\ Len(messages["en"]) = Len(Loaded["en"]) + Len(new_keys)
        /\ Cardinality(DictKeys(messages["en"])) =
               Cardinality(DictKeys(Loaded["en"])) + Len(new_keys)

\* two new keys are added to a table that had a key
C3_Witness ==
    /\ AfterAddMerge
    /\ Len(new_keys) = 2
    /\ Len(Loaded["en"]) = 1
    /\ DictKeys(new_keys) \cap DictKeys(Loaded["en"]) = {}

\* the locales some sub-mapping of the batch names
BatchLocales(batch) == UNION {DOMAIN batch[i][2] : i \in 1..Len(batch)}

\* C4: frame of a merge: the single-locale merge leaves every key of the
\* target table that is not in the additions with its text, and every other
\* locale with its items; the multi-locale merge leaves every locale that
\* the batch does not name with its items.  Neither changes the set of
\* locales, and the sort that follows changes no item.
C4_Frame ==
    /\ (script = "add" /\ pc \in {"merged", "sorted"}) =>
           /\ DOMAIN messages = DOMAIN Loaded
           /\ \A i \in 1..Len(Loaded["en"]) :
                  ~DictHas(new_keys, Loaded["en"][i][1]) =>
                      Maps(messages["en"], Loaded["en"][i][1], Loaded["en"][i][2])
           /\ \A lang \in DOMAIN Loaded \ {"en"} :
                  /\ DictItems(messages[lang]) = DictItems(Loaded[lang])
                  /\ Len(messages[lang]) = Len(Loaded[lang])
    /\ (script = "translate" /\ pc \in {"merged", "failed_merge", "sorted"}) =>
           /\ DOMAIN messages = DOMAIN Loaded
           /\ \A lang \in DOMAIN Loaded \ BatchLocales(translations) :
                  /\ DictItems(messages[lang]) = DictItems(Loaded[lang])
                  /\ Len(messages[lang]) = Len(Loaded[lang])

\* a merge into en that leaves a key of en and a key of ja alone
C4_Witness ==
    /\ AfterAddMerge
    /\ new_keys # <<>>
    /\ "ja" \in DOMAIN Loaded
    /\ Loaded["ja"] # <<>>
    /\ \E i \in 1..Len(Loaded["en"]) : ~DictHas(new_keys, Loaded["en"][i][1])

AfterTranslateMerge == script = "translate" /\ pc \in {"merged", "failed_merge"}

\* C5: the multi-locale merge tolerates partial coverage: when the store has
\* the locales the batch names, each key for at least one locale, the merge
\* does not fail, every key has the
\* batch's text in the locales of its sub-mapping, and is as it was in every
\* other locale.
C5_PartialCoverage ==
    (/\ AfterTranslateMerge
     /\ BatchLocales(translations) \subseteq DOMAIN Loaded
     /\ \A i \in 1..Len(translations) : DOMAIN translations[i][2] # {}) =>
        /\ pc = "merged"
        /\ err = "none"
        /\ \A i \in 1..Len(translations) : \A lang \in DOMAIN Loaded :
               LET key == translations[i][1]
                   trans == translations[i][2]
               IN  IF lang \in DOMAIN trans
                   THEN Maps(messages[lang], key, trans[lang])
                   ELSE \A v \in StoreTexts \cup BatchTexts :
                            Maps(messages[lang], key, v) <=> Maps(Loaded[lang], key, v)

\* C6: MergeMultiLocale is idempotent: merging the same batch a second time
\* into the store the first merge left gives that store again, with the
\* same outcome.
C6_MergeMultiIdempotent ==
    AfterTranslateMerge =>
        MergeMultiLocale(messages, translations) = Result(messages, err)

\* a merge that completed, of a key that ja had and zh had not
C6_Witness ==
    /\ script = "translate"
    /\ pc = "merged"
    /\ Len(translations) = 1
    /\ DictHas(Loaded["ja"], translations[1][1])
    /\ ~DictHas(Loaded["zh"], translations[1][1])

\* the merge of the run targets a locale that the loaded store lacks
TargetMissing ==
    \/ script = "add" /\ "en" \notin DOMAIN Loaded
    \/ /\ script = "translate"
       /\ translations # <<>>
       /\ \E lang \in BatchLocales(translations) : lang \notin DOMAIN Loaded

\* C7: a merge that targets a locale absent from the loaded store fails with
\* MissingLocaleError, and neither the store in memory nor the file has a
\* locale it did not have.
C7_MissingLocaleError ==
    (pc = "failed_merge" /\ TargetMissing) =>
        /\ err = "MissingLocaleError"
        /\ DOMAIN messages = DOMAIN Loaded
        /\ file = file0

\* a < b by code points, written without recursion
CodePointLess(a, b) ==
    \E i \in 1..(Len(a) + 1) :
        /\ i <= Len(b)
        /\ \A j \in 1..(i - 1) : a[j] = b[j]
        /\ (i = Len(a) + 1 \/ a[i] < b[i])

Ascending(d) == \A i \in 1..(Len(d) - 1) : CodePointLess(d[i][1], d[i + 1][1])

\* C8: the sort step gives every locale, touched by the merge or not, a
\* table whose keys are in strictly ascending code-point order and whose
\* items are the ones it had; the set of locales stays as it was.
C8_Normalize ==
    [][(pc = "merged" /\ pc' = "sorted") =>
           /\ DOMAIN messages' = DOMAIN messages
           /\ \A lang \in DOMAIN messages :
                  /\ Ascending(messages'[lang])
                  /\ DictItems(messages'[lang]) = DictItems(messages[lang])
                  /\ Len(messages'[lang]) = Len(messages[lang])]_vars

\* the sort has reordered a locale that the merge left alone
C8_Witness ==
    /\ script = "add"
    /\ pc = "sorted"
    /\ new_keys # <<>>
    /\ \E lang \in DOMAIN Loaded \ {"en"} :
           /\ Len(Loaded[lang]) = 2
           /\ messages[lang] # Loaded[lang]

\* C9: Normalize is idempotent, items and key order compared: the store the
\* sort step left is its own normal form, and so is the normal form of every
\* store a run holds.
C9_NormalizeIdempotent ==
    /\ pc = "sorted" => Normalize(messages) = messages
    /\ pc \in {"loaded", "merged", "failed_merge"} =>
           LET n == Normalize(messages) IN Normalize(n) = n

\* the sort has reordered a merged table of three keys
C9_Witness ==
    /\ script = "add"
    /\ pc = "sorted"
    /\ Len(messages["en"]) = 3
    /\ DictUpdate(Loaded["en"], new_keys) # messages["en"]

\* the insertion orders of a dict
PermsOf(d) ==
    {[i \in 1..Len(d) |-> d[p[i]]] : p \in Permutations(1..Len(d))}

\* the stores that hold the items of s, locale by locale, in any order
RECURSIVE PermutedOver(_, _)
PermutedOver(s, langs) ==
    IF langs = {} THEN {s}
    ELSE LET lang == CHOOSE x \in langs : TRUE IN
         UNION {{[t EXCEPT ![lang] = d] : d \in PermsOf(s[lang])}
                : t \in PermutedOver(s, langs \ {lang})}

PermutedStores(s) == PermutedOver(s, DOMAIN s)

\* C10: order invariance: every store with the same items per locale as the
\* store of the run, whatever the insertion order of its keys, has the same
\* normal form, which is the store the sort step leaves.
C10_OrderInvariance ==
    /\ pc = "sorted" =>
           \A t \in PermutedStores(messages) : Normalize(t) = messages
    /\ pc = "merged" =>
           \A t \in PermutedStores(messages) : Normalize(t) = Normalize(messages)

\* a sorted store of which the run held another insertion order: the merged
\* table of en and a table the merge left alone were both out of order
C10_Witness ==
    /\ script = "add"
    /\ pc = "sorted"
    /\ DictUpdate(Loaded["en"], new_keys) # messages["en"]
    /\ \E lang \in DOMAIN messages \ {"en"} :
           /\ Loaded[lang] # messages[lang]
           /\ \E t \in PermutedStores(messages) :
                  /\ t[lang] = Loaded[lang]
                  /\ t["en"] = DictUpdate(Loaded["en"], new_keys)

Persisted == pc \in {"saved", "done", "failed_report"}

\* the items of a dict, whatever their order
SameItems(s, t) ==
    /\ DOMAIN s = DOMAIN t
    /\ \A lang \in DOMAIN s : DictItems(s[lang]) = DictItems(t[lang])

\* C11: round-trip fidelity: the text json.dump writes for a store loads
\* back as that store.  The file a run saved loads as the store the run
\* wrote, which is the normal form of the store it merged; the normal form
\* of any store the run holds loads back as that normal form, and the store
\* itself loads back with every locale, key and text it had, quotation
\* marks, backslashes and non-ASCII characters included.
C11_RoundTrip ==
    /\ Persisted =>
           /\ JsonLoad(file.content) = [ok |-> TRUE, store |-> messages]
           /\ messages = Normalize(messages)
    /\ pc \in {"loaded", "merged", "sorted"} =>
           /\ JsonLoad(JsonDump(Normalize(messages)))
                  = [ok |-> TRUE, store |-> Normalize(messages)]
           /\ JsonLoad(JsonDump(messages)) = [ok |-> TRUE, store |-> messages]
           /\ SameItems(JsonLoad(JsonDump(messages)).store, Normalize(messages))

\* a saved file whose store holds a text with a quotation mark and a
\* non-ASCII character and a text with a backslash, in a table that the
\* sort reordered
C11_Witness ==
    /\ pc = "saved"
    /\ \E lang \in DOMAIN messages :
           /\ \E i \in 1..Len(messages[lang]) : messages[lang][i][2] = TextOld
           /\ \E i \in 1..Len(messages[lang]) : messages[lang][i][2] = TextNew
           /\ JsonLoad(file0.content).store[lang] # <<>>
           /\ messages[lang][1] # JsonLoad(file0.content).store[lang][1]

\* C12: a run is idempotent end to end: when the script is run a second
\* time on the file its first run wrote, the file it saves is the text
\* the first run wrote.
C12_RunIdempotent ==
    (Runs >= 2 /\ Persisted) => file = file0

\* the second run of each script has saved: the add script on a table that
\* held a text before and got one from the batch, the translate script with
\* a translated key
C12_Witness ==
    /\ Runs = 2
    /\ pc = "saved"
    /\ file.kind = "text"
    /\ \/ /\ script = "add"
          /\ \E i \in 1..Len(messages["en"]) : messages["en"][i][2] = TextOld
          /\ \E i \in 1..Len(messages["en"]) : messages["en"][i] = new_keys[1]
       \/ /\ script = "translate"
          /\ translations # <<>>
          /\ \E i \in 1..Len(messages["ja"]) : messages["ja"][i][2] = TextOld

\* the place of an access in the log
At(p, a) == CHOOSE i \in 1..Len(log) : log[i] = <<p, a>>

BothDone == pc = "done" /\ peer.pc = "done"

\* both processes loaded before either opened the file for writing
LoadsFirst ==
    /\ BothDone
    /\ \A p \in {1, 2}, q \in {1, 2} : At(p, "load") < At(q, "open")

\* the process that wrote last and the store it wrote
LastSaver == IF At(1, "dump") > At(2, "dump") THEN 1 ELSE 2
StoreOf(p) == IF p = 1 THEN messages ELSE peer.messages
ScriptOf(p) == IF p = 1 THEN script ELSE PeerScript

\* the two saves do not overlap: one process wrote and closed the file
\* before the other opened it
SavesApart ==
    \/ At(1, "dump") < At(2, "open")
    \/ At(2, "dump") < At(1, "open")

Before == JsonLoad(file0.content)

\* the locales a script merges into
Targets(sc) == IF sc = "add" THEN {"en"} ELSE {"ja", "zh", "zh-TW"}

\* every key of the batch has a text for each locale the script merges into
FullCoverage ==
    script = "translate" =>
        \A i \in 1..Len(translations) : DOMAIN translations[i][2] = Targets("translate")

\* the literal batch is not empty
BatchGiven == IF script = "add" THEN new_keys # <<>> ELSE translations # <<>>

Ended == pc \in {"done", "failed_load", "failed_merge", "failed_sort", "failed_report"}

\* C14 as stated: on a store that has the locales the script merges into
\* but not all of en, ja, zh and zh-TW, a run that is not interrupted ends
\* successfully with the merged, normalized store in the file.
C14_AnyLocaleSet ==
    (/\ Ended
     /\ Before.ok
     /\ Targets(script) \subseteq DOMAIN Before.store
     /\ DOMAIN Before.store # Locales
     /\ FullCoverage
     /\ BatchGiven)
    => /\ pc = "done"
       /\ file = StoreFile(Normalize(MergeOf(script, Before.store).store))

\* the place of a step in the pass
Rank(p) ==
    CASE p = "start" -> 0
      [] p = "loaded" -> 1
      [] p = "merged" -> 2
      [] p = "sorted" -> 3
      [] p = "writing" -> 4
      [] p = "saved" -> 5
      [] p = "done" -> 6
      [] OTHER -> 7

\* the store holds every entry of the batch of the run
HoldsBatch(store) ==
    IF script = "add"
    THEN \A i \in 1..Len(new_keys) :
             Maps(store["en"], new_keys[i][1], new_keys[i][2])
    ELSE \A i \in 1..Len(translations) : \A lang \in Targets("translate") :
             Maps(store[lang], translations[i][1], translations[i][2][lang])

\* C15: a run is one linear pass: every step moves to the next phase or
\* ends the run with a failure, no phase is skipped or taken twice, and
\* the file changes only in the save, after the sort: the file a completed
\* save leaves has the keys of every locale in ascending order and holds
\* every entry of the batch.
C15_LinearPass ==
    [][/\ pc' # pc => (Rank(pc) < 6 /\ (Rank(pc') = Rank(pc) + 1 \/ Rank(pc') = 7))
       /\ file' # file => pc \in {"sorted", "writing"}
       /\ pc' = "saved" =>
              LET r == JsonLoad(file'.content) IN
              /\ r.ok
              /\ \A lang \in DOMAIN r.store : Ascending(r.store[lang])
              /\ HoldsBatch(r.store)
              /\ DOMAIN r.store = DOMAIN Before.store]_vars

\* a completed save whose file has a table in another order than the merge
\* left it, with the entries of a batch
C15_Witness ==
    /\ pc = "saved"
    /\ BatchGiven
    /\ \E lang \in DOMAIN messages :
           /\ Len(messages[lang]) >= 2
           /\ Before.store[lang] # <<>>
           /\ messages[lang][1] # Before.store[lang][1]
    /\ \E lang \in DOMAIN messages \ Targets(script) : Len(messages[lang]) >= 2

\* C16: no partial success: when a run fails in the load or in the merge,
\* the file is what it was before the run; a missing file stays missing,
\* and the run does not get past the load.
C16_NoPartialSuccess ==
    /\ pc \in {"failed_load", "failed_merge"} => file = file0
    /\ file0.kind = "missing" => (file = file0 /\ pc \in {"start", "failed_load"})

\* the merge failed after it had stored texts in messages
C16_Witness ==
    /\ pc = "failed_merge"
    /\ file = file0
    /\ messages # Before.store

\* C17: the save is not atomic: between open(..., 'w') and the end of
\* json.dump the file is empty, and a run that is interrupted there leaves a
\* file that is empty or cut short: it does not parse, and it is neither the
\* file the run found nor the text of the store the run was writing.
C17_SaveNotAtomic ==
    /\ pc = "writing" => (file = EmptyFile /\ file # file0)
    /\ pc = "failed_save" =>
           /\ ~JsonLoad(file.content).ok
           /\ file # file0
           /\ file # StoreFile(messages)

\* an interrupted save that left a part of the text
C17_Witness ==
    /\ pc = "failed_save"
    /\ file.content # <<>>
    /\ Before.ok

\* C18: a successful run only adds: the file has the locales it had before
\* the run, and every key a locale had is still there, with the text it had
\* unless the batch has a text for that key and locale.
C18_OnlyAdds ==
    pc = "done" =>
        LET after == JsonLoad(file.content).store
            supplied(lang, k) ==
                IF script = "add" THEN lang = "en" /\ DictHas(new_keys, k)
                ELSE \E i \in 1..Len(translations) :
                         translations[i][1] = k /\ lang \in DOMAIN translations[i][2]
        IN  /\ DOMAIN after = DOMAIN Before.store
            /\ \A lang \in DOMAIN after :
                   \A i \in 1..Len(Before.store[lang]) :
                       LET k == Before.store[lang][i][1] IN
                       /\ DictHas(after[lang], k)
                       /\ ~supplied(lang, k) =>
                              DictGet(after[lang], k) = Before.store[lang][i][2]

\* a successful run on a table with a key the batch has, which got the new
\* text, and a key the batch does not have, which kept its text
C18_Witness ==
    /\ pc = "done"
    /\ \E lang \in DOMAIN messages :
           /\ \E i \in 1..Len(messages[lang]) :
                  /\ messages[lang][i][2] = TextNew
                  /\ DictHas(Before.store[lang], messages[lang][i][1])
           /\ \E i \in 1..Len(messages[lang]) : messages[lang][i][2] = TextOld

\* C20 as stated: once the save has completed the run ends successfully: no
\* step after the save fails.
C20_NoFailureAfterSave ==
    [][pc = "saved" => pc' = "done"]_vars

\* some locale of the store is not a mapping of strings to strings
NotStrToStr(store) ==
    \E lang \in DOMAIN store :
        \/ ~IsMapping(store[lang])
        \/ \E i \in 1..Len(store[lang]) : Len(store[lang][i]) # 2

\* C19 as stated: a file in which the value of some locale is not a mapping
\* of strings to strings is rejected when it is loaded: the run fails in
\* the load and the file is not rewritten.
C19_RejectedAtLoad ==
    (Before.ok /\ NotStrToStr(Before.store)) =>
        /\ file = file0
        /\ pc \in {"start", "failed_load"}

\* the store a script leaves in the file when it runs alone on a store
RunOf(sc, store) == Normalize(MergeOf(sc, store).store)

\* C21: the two scripts commute: on a store with en, ja, zh and zh-TW the
\* file that the second script saves, after the other script ran first, is
\* the file the two scripts leave when they run in the opposite order.
C21_Commute ==
    (Switched /\ Persisted) =>
        /\ file = StoreFile(RunOf(PeerScript, RunOf(script, Before.store)))
        /\ file = StoreFile(RunOf(script, RunOf(PeerScript, Before.store)))

\* the second script has saved: the file had a key before, en got the new
\* key and ja its translation, with a text that differs from the new key's
C21_Witness ==
    /\ Switched
    /\ pc = "saved"
    /\ \E lang \in Locales : Before.store[lang] # <<>>
    /\ DictHas(messages["en"], new_keys[1][1])
    /\ DictHas(messages["ja"], translations[1][1])
    /\ new_keys[1][2] # translations[1][2]["ja"]
    /\ messages # Before.store

====
